---- MODULE Spec2Model ----
(***************************************************************************)
(* Model of the commit-me VS Code extension (src/src/extension.ts and its  *)
(* delegate variant src/unnamed/part_000).                                 *)
(*                                                                         *)
(* A JavaScript string is a sequence of one-character strings, so that     *)
(* startsWith, substring, split and the template literals are computed     *)
(* character by character.  A JavaScript Set is a duplicate-free sequence  *)
(* in insertion order (the iteration order of Set and of Array.from).      *)
(***************************************************************************)
EXTENDS Integers, Sequences, FiniteSets, TLC

VARIABLES
    \* GitCommitGeneratorViewProvider (the extension host)
    view,              \* _view is set (resolveWebviewView has run)
    _git,              \* _git: the directory the handle is bound to
    _currentDirectory, \* _currentDirectory
    workspaceFolder,   \* vscode.workspace.workspaceFolders[0], if any
    tasks,             \* the suspended async handler calls
    delegate,          \* the build whose generateCommitMessage calls
                       \* callBackendAPI (src/unnamed/part_000)
    awaited,           \* the outcome of an awaited call that has settled
                       \* while its handler has not yet run on
    toHost,            \* messages posted by the webview, not yet handled
    toView,            \* messages posted by the host, not yet handled
    \* the git collaborator
    staged,            \* per repository, the staged paths
    \* the webview script
    rendered,          \* updateFileList has built the list
    fileList,          \* the file entries of #fileList, in order
    checked,           \* the positions of the checked file checkboxes
    selectAll,         \* the #selectAll checkbox
    selectedFiles,     \* the script's selectedFiles Set
    commitMessageBox,  \* the #commitMessage textarea
    errorBox,          \* the #directoryError text
    \* one call of generateCommitMessageFromDiff
    phase,             \* position of the call
    diff,              \* its argument diff
    userInstructions,  \* its argument userInstructions (a JS value)
    changedFiles,      \* its local changedFiles (insertion-ordered Set)
    additions,         \* its local additions
    deletions,         \* its local deletions
    message,           \* its return value
    \* one reconciliation of a status result in updateDirectory
    status,            \* its local status
    modifiedFiles      \* its local modifiedFiles

hostVars ==
    <<view, _git, _currentDirectory, workspaceFolder, tasks, delegate,
      awaited>>

webviewVars ==
    <<rendered, fileList, checked, selectAll, selectedFiles,
      commitMessageBox, errorBox>>

sessionVars == <<hostVars, toHost, toView, staged, webviewVars>>

pureVars ==
    <<phase, diff, userInstructions, changedFiles, additions, deletions,
      message, status, modifiedFiles>>

vars == <<sessionVars, pureVars>>

-----------------------------------------------------------------------------
(* JavaScript values and string primitives                                 *)

Range(s) == {s[i] : i \in 1..Len(s)}

\* The value undefined (a message field that was not provided).
JsUndefined == [kind |-> "undefined", val |-> <<>>]

\* A JS string value with the characters s.
JsString(s) == [kind |-> "string", val |-> s]

\* JS truthiness of an undefined-or-string value: `if (userInstructions)`.
Truthy_UndefinedOnly(v) == v.kind = "string"

Truthy(v) == v.kind = "string" /\ v.val # <<>>

\* String.prototype.startsWith
startsWith(s, p) == Len(s) >= Len(p) /\ SubSeq(s, 1, Len(p)) = p

\* String.prototype.substring(n): the characters from 0-based index n on.
substring(s, n) == SubSeq(s, n + 1, Len(s))

\* String.prototype.split(sep) for a one-character separator.
RECURSIVE split(_, _)
split(s, sep) ==
    IF \A i \in 1..Len(s) : s[i] # sep
    THEN <<s>>
    ELSE LET i == CHOOSE k \in 1..Len(s) :
                      s[k] = sep /\ \A j \in 1..(k - 1) : s[j] # sep
         IN  <<SubSeq(s, 1, i - 1)>> \o split(SubSeq(s, i + 1, Len(s)), sep)

\* Array.prototype.join(sep) on an array of strings.
RECURSIVE join(_, _)
join(arr, sep) ==
    IF Len(arr) = 0 THEN <<>>
    ELSE IF Len(arr) = 1 THEN arr[1]
    ELSE arr[1] \o sep \o join(Tail(arr), sep)

\* Array.prototype.slice(0, n)
slice0(arr, n) == SubSeq(arr, 1, IF Len(arr) < n THEN Len(arr) ELSE n)

\* Set.prototype.add on an insertion-ordered set.
SetAdd(set, x) == IF x \in Range(set) THEN set ELSE Append(set, x)

DigitChars == <<"0", "1", "2", "3", "4", "5", "6", "7", "8", "9">>

\* Number-to-string conversion of a non-negative integer in a template literal.
RECURSIVE NumberToString(_)
NumberToString(n) ==
    IF n < 10 THEN <<DigitChars[n + 1]>>
    ELSE NumberToString(n \div 10) \o <<DigitChars[(n % 10) + 1]>>

-----------------------------------------------------------------------------
(* String literals of generateCommitMessageFromDiff                        *)

NewLine == "\n"
Slash == "/"
PlusPlusPlus == <<"+", "+", "+">>
MinusMinusMinus == <<"-", "-", "-">>
PlusSign == <<"+">>
MinusSign == <<"-">>
DevNull == <<"/", "d", "e", "v", "/", "n", "u", "l", "l">>
UpdatePrefix == <<"U", "p", "d", "a", "t", "e", ":", " ">>
ColonSpace == <<":", " ">>
ChangesInRepository ==
    <<"C", "h", "a", "n", "g", "e", "s", " ", "i", "n", " ",
      "r", "e", "p", "o", "s", "i", "t", "o", "r", "y">>
ChangesIn == <<"C", "h", "a", "n", "g", "e", "s", " ", "i", "n", " ">>
ChangesInMultipleFiles ==
    <<"C", "h", "a", "n", "g", "e", "s", " ", "i", "n", " ",
      "m", "u", "l", "t", "i", "p", "l", "e", " ",
      "f", "i", "l", "e", "s", " ", "(">>
CommaSpace == <<",", " ">>
Ellipsis == <<".", ".", ".">>

\* The header width of `line.length > 4` and `line.substring(4)`.
HeaderSkip == 4

\* The number of names `filesChanged.slice(0, 3)` keeps.
MaxListedFiles == 3

-----------------------------------------------------------------------------
(* generateCommitMessageFromDiff: the parse loop                           *)

\* `line.startsWith("+++") && line.length > 4`
IsFileHeader_LongerThanMarker(line) ==
    startsWith(line, PlusPlusPlus) /\ Len(line) > Len(PlusPlusPlus)

IsFileHeader(line) == startsWith(line, PlusPlusPlus) /\ Len(line) > HeaderSkip

\* `file !== "/dev/null"`
IsRealFile_Always(file) == TRUE

IsRealFile(file) == file # DevNull

\* `file.split("/").pop() || ""`
BaseName_FullPath(file) == file

BaseName(file) ==
    LET parts == split(file, Slash) IN parts[Len(parts)]

\* `line.startsWith("+") && !line.startsWith("+++")`
IsAdditionLine_AnyPlus(line) == startsWith(line, PlusSign)

IsAdditionLine(line) ==
    startsWith(line, PlusSign) /\ ~startsWith(line, PlusPlusPlus)

\* `line.startsWith("-") && !line.startsWith("---")`
IsDeletionLine(line) ==
    startsWith(line, MinusSign) /\ ~startsWith(line, MinusMinusMinus)

\* One iteration of `for (const line of lines)` on the locals in `facts`.
ParseLine(facts, line) ==
    IF IsFileHeader(line)
    THEN LET file == substring(line, HeaderSkip) IN
         IF IsRealFile(file)
         THEN [facts EXCEPT !.changedFiles = SetAdd(@, BaseName(file))]
         ELSE facts
    ELSE IF IsAdditionLine(line)
    THEN [facts EXCEPT !.additions = @ + 1]
    ELSE IF IsDeletionLine(line)
    THEN [facts EXCEPT !.deletions = @ + 1]
    ELSE facts

\* The loop over lines[1..n], starting from the initial locals.
RECURSIVE ParseLines(_, _)
ParseLines(lines, n) ==
    IF n = 0
    THEN [changedFiles |-> <<>>, additions |-> 0, deletions |-> 0]
    ELSE ParseLine(ParseLines(lines, n - 1), lines[n])

\* Lines 173-189: split the diff on newline and run the loop.
ParseDiff(d) ==
    LET lines == split(d, NewLine) IN ParseLines(lines, Len(lines))

-----------------------------------------------------------------------------
(* generateCommitMessageFromDiff: the message                              *)

\* `(+${additions} -${deletions})`
Counts_Swapped(a, d) ==
    <<" ", "(", "+">> \o NumberToString(d) \o <<" ", "-">>
        \o NumberToString(a) \o <<")">>

Counts(a, d) ==
    <<" ", "(", "+">> \o NumberToString(a) \o <<" ", "-">>
        \o NumberToString(d) \o <<")">>

\* Lines 192-198: baseMessage.
BaseMessage(instr) ==
    IF Truthy(instr) THEN instr.val \o ColonSpace ELSE UpdatePrefix

\* `Changes in repository`, the return of the filesChanged.length === 0 case.
EmptyCaseText_WithCounts(a, d) == ChangesInRepository \o Counts(a, d)

EmptyCaseText(a, d) == ChangesInRepository

\* `filesChanged.slice(0, 3).join(", ")` + `filesChanged.length > 3 ? "..." : ""`
ListedFiles_EllipsisFromThree(filesChanged) ==
    join(slice0(filesChanged, MaxListedFiles), CommaSpace)
        \o (IF Len(filesChanged) >= MaxListedFiles THEN Ellipsis ELSE <<>>)

ListedFiles(filesChanged) ==
    join(slice0(filesChanged, MaxListedFiles), CommaSpace)
        \o (IF Len(filesChanged) > MaxListedFiles THEN Ellipsis ELSE <<>>)

\* Lines 191-212: compose the message from the locals.
ComposeMessage(facts, instr) ==
    LET filesChanged == facts.changedFiles
        baseMessage  == BaseMessage(instr)
    IN  IF Len(filesChanged) = 0
        THEN baseMessage \o EmptyCaseText(facts.additions, facts.deletions)
        ELSE IF Len(filesChanged) = 1
        THEN baseMessage \o ChangesIn \o filesChanged[1]
                 \o Counts(facts.additions, facts.deletions)
        ELSE baseMessage \o ChangesInMultipleFiles \o ListedFiles(filesChanged)
                 \o <<")">> \o Counts(facts.additions, facts.deletions)

generateCommitMessageFromDiff(d, instr) == ComposeMessage(ParseDiff(d), instr)

-----------------------------------------------------------------------------
(* Inputs of generateCommitMessageFromDiff                                 *)

\* The longest diff, in lines, that is enumerated exhaustively.
MaxLines == 3

HeaderA == <<"+", "+", "+", " ", "b", "/", "a", ".", "t", "s">>
HeaderB == <<"+", "+", "+", " ", "b", "/", "b", ".", "t", "s">>
HeaderC == <<"+", "+", "+", " ", "b", "/", "c", ".", "t", "s">>
HeaderD == <<"+", "+", "+", " ", "b", "/", "d", ".", "t", "s">>
HeaderLibA ==
    <<"+", "+", "+", " ", "b", "/", "l", "i", "b", "/", "a", ".", "t", "s">>
HeaderMainRs ==
    <<"+", "+", "+", " ", "b", "/", "s", "r", "c", "/",
      "m", "a", "i", "n", ".", "r", "s">>
OldHeaderMainRs ==
    <<"-", "-", "-", " ", "a", "/", "s", "r", "c", "/",
      "m", "a", "i", "n", ".", "r", "s">>
HeaderDevNull ==
    <<"+", "+", "+", " ", "/", "d", "e", "v", "/", "n", "u", "l", "l">>
HeaderDir == <<"+", "+", "+", " ", "b", "/">>
HeaderNoPath == <<"+", "+", "+", " ">>
HeaderBare == <<"+", "+", "+">>
OldHeaderA == <<"-", "-", "-", " ", "a", "/", "a", ".", "t", "s">>
AddedLine == <<"+", "x">>
RemovedLine == <<"-", "x">>
ContextLine == <<" ", "x">>
EmptyLine == <<>>

\* The lines a diff text is made of.
PoolLines ==
    {HeaderA, HeaderB, HeaderC, HeaderLibA, HeaderDevNull, HeaderDir,
     HeaderNoPath, HeaderBare, OldHeaderA, AddedLine, RemovedLine,
     ContextLine, EmptyLine}

\* n copies of a line.
Repeat(line, n) == [i \in 1..n |-> line]

\* The diff text whose lines are ls.
DiffText(ls) == join(ls, <<NewLine>>)

\* The diffs of section 8 of the specification, and one with two-digit counts.
ExampleMainRs ==
    DiffText(<<OldHeaderMainRs, HeaderMainRs>> \o Repeat(AddedLine, 3)
                 \o <<RemovedLine>>)
ExampleOneFile == DiffText(<<OldHeaderA, HeaderA>> \o Repeat(AddedLine, 2))
ExampleFourFiles ==
    DiffText(<<HeaderA, AddedLine, HeaderB, AddedLine, RemovedLine, HeaderC,
               AddedLine, HeaderD, AddedLine, AddedLine>>)
ExampleManyLines ==
    DiffText(<<HeaderA, HeaderB>> \o Repeat(AddedLine, 12)
                 \o Repeat(RemovedLine, 10))

ExampleDiffs ==
    {ExampleMainRs, ExampleOneFile, ExampleFourFiles, ExampleManyLines}

\* Every diff of at most MaxLines pool lines, and the examples.
DiffInputs ==
    {DiffText(ls) : ls \in UNION {[1..k -> PoolLines] : k \in 0..MaxLines}}
        \cup ExampleDiffs

InstructionFix == <<"f", "i", "x">>

\* userInstructions: not provided, the empty string, or a text.
InstructionInputs == {JsUndefined, JsString(<<>>), JsString(InstructionFix)}

-----------------------------------------------------------------------------
(* The session: directories, paths and the git collaborator                *)

\* The number of requests that may be outstanding at once: posted by the
\* webview (or started by resolveWebviewView) and not yet handled by it.
MaxOutstanding == 2

\* An unset field (_git, _currentDirectory) or a missing workspace folder.
Undefined == "undefined"

\* The workspace folder and another repository; a directory that is none;
\* a path that is no directory.
Repos == {"ws", "repo"}
Directories == Repos \cup {"plain"}

\* The text of the #directory input: empty, a directory, or no directory.
DirectoryInputs == {""} \cup Directories \cup {"missing"}

\* simpleGit(directory) throws on a path that is no directory.
Exists(d) == d \in Directories

\* What checkIsRepo answers for a handle bound to directory d.
IsRepo(d) == d \in Repos

PathOne == <<"f", "1">>
PathTwo == <<"f", "2">>
PathThree == <<"f", "3">>

\* The repository-relative paths of a status query.
StatusPaths == {PathOne, PathTwo, PathThree}

\* The paths of the working tree the session follows, in git's order.
PathOrder == <<PathOne, PathTwo>>
Paths == Range(PathOrder)

\* The largest number of paths one status query reports over its three lists.
MaxStatusFiles == 3

\* The duplicate-free path lists of at most n paths.
PathLists(n) ==
    {l \in UNION {[1..k -> StatusPaths] : k \in 0..n} :
        \A i, j \in 1..Len(l) : i # j => l[i] # l[j]}

\* The StatusResult fields updateDirectory reads.  simple-git files a path of
\* status "AM" under both created and modified, so the lists may overlap.
StatusResults ==
    {st \in [modified : PathLists(MaxStatusFiles),
             not_added : PathLists(MaxStatusFiles),
             created : PathLists(MaxStatusFiles)] :
        Len(st.modified) + Len(st.not_added) + Len(st.created)
            <= MaxStatusFiles}

\* The status of a clean working tree.
EmptyStatus == [modified |-> <<>>, not_added |-> <<>>, created |-> <<>>]

\* The status results the session follows: a clean tree, a modified and an
\* untracked file, and a file that is both created and modified.
SessionStatusResults ==
    {EmptyStatus,
     [modified |-> <<PathOne>>, not_added |-> <<PathTwo>>, created |-> <<>>],
     [modified |-> <<PathOne>>, not_added |-> <<>>, created |-> <<PathOne>>]}

\* The unified diff of one staged path: both headers and one added line.
FileDiffLines(path) ==
    <<MinusMinusMinus \o <<" ", "a", "/">> \o path,
      PlusPlusPlus \o <<" ", "b", "/">> \o path,
      AddedLine>>

\* The paths of a set, in git's order.
SortedPaths(set) ==
    LET in(p) == p \in set IN SelectSeq(PathOrder, in)

RECURSIVE ConcatAll(_)
ConcatAll(seqs) ==
    IF Len(seqs) = 0 THEN <<>> ELSE Head(seqs) \o ConcatAll(Tail(seqs))

\* The output of `git diff --staged`: empty when nothing is staged.
StagedDiffText(set) ==
    IF set = {} THEN <<>>
    ELSE LET ps == SortedPaths(set) IN
         DiffText(ConcatAll([i \in 1..Len(ps) |-> FileDiffLines(ps[i])])
                      \o <<EmptyLine>>)

-----------------------------------------------------------------------------
(* Messages between the webview and the host                               *)

NoDirectoryText ==
    <<"N", "o", " ", "d", "i", "r", "e", "c", "t", "o", "r", "y", " ",
      "s", "p", "e", "c", "i", "f", "i", "e", "d", " ", "a", "n", "d",
      " ", "n", "o", " ", "w", "o", "r", "k", "s", "p", "a", "c", "e",
      " ", "f", "o", "l", "d", "e", "r", " ", "f", "o", "u", "n", "d">>
NotARepositoryText ==
    <<"S", "e", "l", "e", "c", "t", "e", "d", " ", "d", "i", "r", "e",
      "c", "t", "o", "r", "y", " ", "i", "s", " ", "n", "o", "t", " ",
      "a", " ", "g", "i", "t", " ", "r", "e", "p", "o", "s", "i", "t",
      "o", "r", "y">>
NotInitializedText ==
    <<"G", "i", "t", " ", "r", "e", "p", "o", "s", "i", "t", "o", "r",
      "y", " ", "n", "o", "t", " ", "i", "n", "i", "t", "i", "a", "l",
      "i", "z", "e", "d">>
NoFilesSelectedText ==
    <<"N", "o", " ", "f", "i", "l", "e", "s", " ", "s", "e", "l", "e",
      "c", "t", "e", "d">>
NoStagedChangesText ==
    <<"N", "o", " ", "s", "t", "a", "g", "e", "d", " ", "c", "h", "a",
      "n", "g", "e", "s", " ", "f", "o", "u", "n", "d">>
\* error.message of a collaborator call that threw or was rejected.
CollaboratorErrorText ==
    <<"g", "i", "t", " ", "f", "a", "i", "l", "e", "d">>

\* { type: "updateDirectory", value }
UpdateDirectoryMessage(value) ==
    [type |-> "updateDirectory", value |-> value, selectedFiles |-> {},
     userInstructions |-> JsUndefined]

\* { type: "generateCommitMessage", selectedFiles, userInstructions }
GenerateMessage(files, instr) ==
    [type |-> "generateCommitMessage", value |-> "", selectedFiles |-> files,
     userInstructions |-> instr]

\* { type: "error", message }
ErrorMessage(text) == [type |-> "error", message |-> text, files |-> <<>>]

\* { type: "updateFiles", files }
UpdateFilesMessage(files) ==
    [type |-> "updateFiles", message |-> <<>>, files |-> files]

\* { type: "commitMessage", message }
CommitMessageMessage(text) ==
    [type |-> "commitMessage", message |-> text, files |-> <<>>]

-----------------------------------------------------------------------------
(* The suspended handler calls                                             *)

TaskIds == 1..MaxOutstanding

\* A handler call suspended at `await this._git.<pc>(...)`, the call having
\* been made on the handle `git`.
AwaitingTask(type, pc, git, files, instr) ==
    [type |-> type, pc |-> pc, git |-> git, selectedFiles |-> files,
     userInstructions |-> instr]

\* The suspended calls are kept in the order they were started.
Start(task) == tasks' = Append(tasks, task)

Continue(t, task) == tasks' = [tasks EXCEPT ![t] = task]

Finish(t) ==
    tasks' = [i \in 1..(Len(tasks) - 1) |->
                  IF i < t THEN tasks[i] ELSE tasks[i + 1]]

\* The requests that are posted, running, or answered but not yet shown.
Outstanding == Len(toHost) + Len(tasks) + Len(toView)

\* this._view?.webview.postMessage(msg)
Post(msg) == toView' = Append(toView, msg)

\* The catch block of a handler (lines 121-127, 160-166): the error message
\* is posted.
Caught_Swallowed(text) == toView' = toView

Caught(text) == Post(ErrorMessage(text))

-----------------------------------------------------------------------------
(* The outcomes of the awaited calls                                       *)

\* No awaited call has settled.
NoOutcome ==
    [kind |-> "none", isRepo |-> FALSE, status |-> EmptyStatus,
     text |-> <<>>, ok |-> FALSE]

\* The call is rejected (not a repository, a missing path, an I/O error, a
\* network failure); it has no effect.
Rejected == [NoOutcome EXCEPT !.kind = "rejected"]

Fulfilled == [NoOutcome EXCEPT !.kind = "fulfilled"]

\* The bodies the delegate endpoint answers.
DelegateBodies == {<<>>, <<"f", "e", "a", "t", ":", " ", "x">>}

\* `HTTP error! Status: ${response.status}`
HttpErrorText ==
    <<"H", "T", "T", "P", " ", "e", "r", "r", "o", "r", "!", " ", "S",
      "t", "a", "t", "u", "s", ":", " ", "5", "0", "0">>

\* The outcomes of the call a handler is suspended at: a call on a handle
\* that is in no repository is rejected, except checkIsRepo, which answers
\* false; the staged diff is empty when the staged content equals HEAD.
Outcomes(task) ==
    {Rejected} \cup
    (IF task.pc = "checkIsRepo"
     THEN {[Fulfilled EXCEPT !.isRepo = IsRepo(task.git)]}
     ELSE IF task.pc = "fetch"
     THEN {Fulfilled}
              \cup {[Fulfilled EXCEPT !.ok = TRUE, !.text = body] :
                        body \in DelegateBodies}
     ELSE IF ~IsRepo(task.git)
     THEN {}
     ELSE IF task.pc = "status"
     THEN {[Fulfilled EXCEPT !.status = st] : st \in SessionStatusResults}
     ELSE IF task.pc = "add"
     THEN {Fulfilled}
     ELSE {[Fulfilled EXCEPT !.text = text] :
               text \in {StagedDiffText(staged[task.git]), <<>>}})

\* The staged paths after the call has settled: a fulfilled add has staged
\* its paths.
StagedAfter(task, r) ==
    IF task.pc = "add" /\ r.kind = "fulfilled"
    THEN [staged EXCEPT ![task.git] = @ \cup task.selectedFiles]
    ELSE staged

-----------------------------------------------------------------------------
(* updateDirectory                                                         *)

\* { path, staged: false, modified: true }
FileRecord(path) == [path |-> path, staged |-> FALSE, modified |-> TRUE]

MapRecords(paths) == [i \in 1..Len(paths) |-> FileRecord(paths[i])]

\* Lines 99-115: modifiedFiles.
Reconcile_CreatedFirst(st) ==
    MapRecords(st.created) \o MapRecords(st.modified)
        \o MapRecords(st.not_added)

Reconcile(st) ==
    MapRecords(st.modified) \o MapRecords(st.not_added)
        \o MapRecords(st.created)

\* Lines 68-88: from the call of updateDirectory to its first await.
UpdateDirectoryEnter(directory) ==
    IF directory = "" /\ workspaceFolder = Undefined
    THEN /\ Post(ErrorMessage(NoDirectoryText))
         /\ UNCHANGED <<_git, _currentDirectory, tasks>>
    ELSE LET dir == IF directory = "" THEN workspaceFolder ELSE directory IN
         IF ~Exists(dir)
         THEN /\ Post(ErrorMessage(CollaboratorErrorText))
              /\ UNCHANGED <<_git, _currentDirectory, tasks>>
         ELSE /\ _git' = dir
              /\ _currentDirectory' = dir
              /\ Start(AwaitingTask("updateDirectory", "checkIsRepo", dir,
                                    {}, JsUndefined))
              /\ UNCHANGED toView

\* Lines 88-98: the handler runs on after `await this._git.checkIsRepo()`
\* has settled with outcome r.
AfterCheckIsRepo(t, r) ==
    IF r.kind = "rejected"
    THEN /\ Caught(CollaboratorErrorText)
         /\ Finish(t)
    ELSE IF ~r.isRepo
    THEN /\ Post(ErrorMessage(NotARepositoryText))
         /\ Finish(t)
    ELSE /\ Continue(t, AwaitingTask("updateDirectory", "status", _git, {},
                                     JsUndefined))
         /\ UNCHANGED toView

\* Lines 98-127: the handler runs on after `await this._git.status()` has
\* settled with outcome r.
AfterStatus(t, r) ==
    /\ IF r.kind = "rejected"
       THEN Caught(CollaboratorErrorText)
       ELSE Post(UpdateFilesMessage(Reconcile(r.status)))
    /\ Finish(t)

\* `await this._git.checkIsRepo()` settles and the handler runs on.
ResumeAfterCheckIsRepo(t) ==
    /\ t \in 1..Len(tasks)
    /\ tasks[t].pc = "checkIsRepo"
    /\ \E r \in Outcomes(tasks[t]) : AfterCheckIsRepo(t, r)
    /\ UNCHANGED <<view, _git, _currentDirectory, workspaceFolder, delegate,
                   awaited, toHost, staged, webviewVars, pureVars>>

\* `await this._git.status()` settles and the handler runs on.
ResumeAfterStatus(t) ==
    /\ t \in 1..Len(tasks)
    /\ tasks[t].pc = "status"
    /\ \E r \in Outcomes(tasks[t]) : AfterStatus(t, r)
    /\ UNCHANGED <<view, _git, _currentDirectory, workspaceFolder, delegate,
                   awaited, toHost, staged, webviewVars, pureVars>>

-----------------------------------------------------------------------------
(* generateCommitMessage                                                   *)

\* `selectedFiles.length === 0`
NoneSelected_Never(files) == FALSE

NoneSelected(files) == Cardinality(files) = 0

\* `!this._git || !this._currentDirectory`
NotInitialized == _git = Undefined \/ _currentDirectory = Undefined

\* `!diff`
DiffMissing_Never(text) == FALSE

DiffMissing(text) == text = <<>>

\* Lines 134-144: from the call of generateCommitMessage to its first await.
GenerateEnter(files, instr) ==
    IF NotInitialized
    THEN /\ Caught(NotInitializedText)
         /\ UNCHANGED tasks
    ELSE IF NoneSelected(files)
    THEN /\ Caught(NoFilesSelectedText)
         /\ UNCHANGED tasks
    ELSE /\ Start(AwaitingTask("generateCommitMessage", "add", _git, files,
                               instr))
         /\ UNCHANGED toView

\* Lines 144-147: the handler runs on after `await this._git.add(...)` has
\* settled with outcome r.
AfterAdd(t, r) ==
    IF r.kind = "rejected"
    THEN /\ Caught(CollaboratorErrorText)
         /\ Finish(t)
    ELSE /\ Continue(t, AwaitingTask("generateCommitMessage", "diff", _git,
                                     tasks[t].selectedFiles,
                                     tasks[t].userInstructions))
         /\ UNCHANGED toView

\* Lines 147-166: the handler runs on after `await this._git.diff(...)` has
\* settled with outcome r.  In src/unnamed/part_000 (lines 146-151) it calls
\* callBackendAPI, which awaits fetch.
AfterDiff(t, r) ==
    IF r.kind = "rejected"
    THEN /\ Caught(CollaboratorErrorText)
         /\ Finish(t)
    ELSE IF DiffMissing(r.text)
    THEN /\ Caught(NoStagedChangesText)
         /\ Finish(t)
    ELSE IF delegate
    THEN /\ Continue(t, AwaitingTask("generateCommitMessage", "fetch",
                                     tasks[t].git, tasks[t].selectedFiles,
                                     tasks[t].userInstructions))
         /\ UNCHANGED toView
    ELSE /\ Post(CommitMessageMessage(
                     generateCommitMessageFromDiff(
                         r.text, tasks[t].userInstructions)))
         /\ Finish(t)

\* src/unnamed/part_000, lines 151-164 and 177-197: the handler runs on after
\* the fetch of callBackendAPI has settled with outcome r.  A failed request
\* is rethrown by callBackendAPI and caught by generateCommitMessage; the
\* body of a successful response is posted as it is.
AfterFetch_ComposeOnFailure(t, r) ==
    /\ IF r.kind = "rejected" \/ ~r.ok
       THEN Post(CommitMessageMessage(
                     generateCommitMessageFromDiff(
                         StagedDiffText(staged[tasks[t].git]),
                         tasks[t].userInstructions)))
       ELSE Post(CommitMessageMessage(r.text))
    /\ Finish(t)

AfterFetch(t, r) ==
    /\ IF r.kind = "rejected"
       THEN Caught(CollaboratorErrorText)
       ELSE IF ~r.ok
       THEN Caught(HttpErrorText)
       ELSE Post(CommitMessageMessage(r.text))
    /\ Finish(t)

\* `await this._git.add(selectedFiles)` settles and the handler runs on.
ResumeAfterAdd(t) ==
    /\ t \in 1..Len(tasks)
    /\ tasks[t].pc = "add"
    /\ \E r \in Outcomes(tasks[t]) :
           /\ staged' = StagedAfter(tasks[t], r)
           /\ AfterAdd(t, r)
    /\ UNCHANGED <<view, _git, _currentDirectory, workspaceFolder, delegate,
                   awaited, toHost, webviewVars, pureVars>>

\* `await this._git.diff(["--staged"])` settles and the handler runs on.
ResumeAfterDiff(t) ==
    /\ t \in 1..Len(tasks)
    /\ tasks[t].pc = "diff"
    /\ \E r \in Outcomes(tasks[t]) : AfterDiff(t, r)
    /\ UNCHANGED <<view, _git, _currentDirectory, workspaceFolder, delegate,
                   awaited, toHost, staged, webviewVars, pureVars>>

-----------------------------------------------------------------------------
(* resolveWebviewView and the message handler                              *)

\* Lines 28-65: the view is created; with a workspace folder, updateDirectory
\* is called on it (and not awaited).
resolveWebviewView ==
    /\ ~view
    /\ view' = TRUE
    /\ IF workspaceFolder # Undefined
       THEN UpdateDirectoryEnter(workspaceFolder)
       ELSE UNCHANGED <<_git, _currentDirectory, tasks, toView>>
    /\ UNCHANGED <<workspaceFolder, delegate, awaited, toHost, staged,
                   webviewVars, pureVars>>

\* Lines 43-55: onDidReceiveMessage runs the handler up to its first await.
onDidReceiveMessage ==
    /\ view
    /\ toHost # <<>>
    /\ toHost' = Tail(toHost)
    /\ LET data == Head(toHost) IN
         IF data.type = "updateDirectory"
         THEN UpdateDirectoryEnter(data.value)
         ELSE /\ GenerateEnter(data.selectedFiles, data.userInstructions)
              /\ UNCHANGED <<_git, _currentDirectory>>
    /\ UNCHANGED <<view, workspaceFolder, delegate, awaited, staged,
                   webviewVars, pureVars>>

-----------------------------------------------------------------------------
(* The webview script                                                      *)

\* The text of the #userInstructions textarea.
InstructionTexts == {JsString(InstructionFix)}

\* Click on #updateBtn.
ClickUpdate(directory) ==
    /\ view
    /\ Outstanding < MaxOutstanding
    /\ toHost' = Append(toHost, UpdateDirectoryMessage(directory))
    /\ UNCHANGED <<hostVars, toView, staged, webviewVars, pureVars>>

\* Click on #generateBtn with the selection `files`.
PostGenerate(files, instr) ==
    /\ view
    /\ Outstanding < MaxOutstanding
    /\ toHost' = Append(toHost, GenerateMessage(files, instr))
    /\ UNCHANGED <<hostVars, toView, staged, webviewVars, pureVars>>

ClickGenerate(instr) == PostGenerate(selectedFiles, instr)

\* The change handler of the checkbox of entry i.
ToggleFile(i) ==
    /\ rendered
    /\ i \in 1..Len(fileList)
    /\ IF i \notin checked
       THEN /\ checked' = checked \cup {i}
            /\ selectedFiles' = selectedFiles \cup {fileList[i].path}
            /\ UNCHANGED selectAll
       ELSE /\ checked' = checked \ {i}
            /\ selectedFiles' = selectedFiles \ {fileList[i].path}
            /\ selectAll' = FALSE
    /\ UNCHANGED <<hostVars, toHost, toView, staged, rendered, fileList,
                   commitMessageBox, errorBox, pureVars>>

\* The change handler of #selectAll.
ToggleSelectAll ==
    /\ rendered
    /\ selectAll' = ~selectAll
    /\ IF ~selectAll
       THEN /\ checked' = 1..Len(fileList)
            /\ selectedFiles' =
                   selectedFiles \cup {fileList[i].path : i \in 1..Len(fileList)}
       ELSE /\ checked' = {}
            /\ selectedFiles' =
                   selectedFiles \ {fileList[i].path : i \in 1..Len(fileList)}
    /\ UNCHANGED <<hostVars, toHost, toView, staged, rendered, fileList,
                   commitMessageBox, errorBox, pureVars>>

\* The window message handler, and updateFileList.
ViewReceive ==
    /\ toView # <<>>
    /\ toView' = Tail(toView)
    /\ LET msg == Head(toView) IN
         \/ /\ msg.type = "updateFiles"
            /\ rendered' = TRUE
            /\ fileList' = msg.files
            /\ checked' = {}
            /\ selectAll' = FALSE
            /\ selectedFiles' = {}
            /\ UNCHANGED <<commitMessageBox, errorBox>>
         \/ /\ msg.type = "commitMessage"
            /\ commitMessageBox' = msg.message
            /\ UNCHANGED <<rendered, fileList, checked, selectAll,
                           selectedFiles, errorBox>>
         \/ /\ msg.type = "error"
            /\ errorBox' = msg.message
            /\ UNCHANGED <<rendered, fileList, checked, selectAll,
                           selectedFiles, commitMessageBox>>
    /\ UNCHANGED <<hostVars, toHost, staged, pureVars>>

-----------------------------------------------------------------------------
(* The session of the extension host                                       *)
(* The webview is followed by the messages it exchanges with the host: it  *)
(* may post an update request for any directory text and a generate        *)
(* request for any selection of paths, and it takes the host's messages    *)
(* in order.                                                               *)

\* The webview before it has received anything.
WebviewNotStarted ==
    /\ rendered = FALSE
    /\ fileList = <<>>
    /\ checked = {}
    /\ selectAll = FALSE
    /\ selectedFiles = {}
    /\ commitMessageBox = <<>>
    /\ errorBox = <<>>

\* The state after construction, except for the workspace folder.
SessionNotStarted ==
    /\ view = FALSE
    /\ _git = Undefined
    /\ _currentDirectory = Undefined
    /\ tasks = <<>>
    /\ awaited = NoOutcome
    /\ toHost = <<>>
    /\ toView = <<>>
    /\ staged = [r \in Repos |-> {}]
    /\ WebviewNotStarted

\* No call of a pure function is being followed.
PureIdle ==
    /\ phase = "idle"
    /\ diff = <<>>
    /\ userInstructions = JsUndefined
    /\ changedFiles = <<>>
    /\ additions = 0
    /\ deletions = 0
    /\ message = <<>>
    /\ status = EmptyStatus
    /\ modifiedFiles = <<>>

\* Click on #generateBtn, whatever the selection is.
GenerateRequested(files, instr) == PostGenerate(files, instr)

\* The webview takes the next message of the host.
MessageTaken ==
    /\ toView # <<>>
    /\ toView' = Tail(toView)
    /\ UNCHANGED <<hostVars, toHost, staged, webviewVars, pureVars>>

Init ==
    /\ SessionNotStarted
    /\ delegate = FALSE
    /\ workspaceFolder \in {Undefined, "ws"}
    /\ PureIdle

Next ==
    \/ resolveWebviewView
    \/ onDidReceiveMessage
    \/ \E t \in TaskIds : ResumeAfterCheckIsRepo(t)
    \/ \E t \in TaskIds : ResumeAfterStatus(t)
    \/ \E t \in TaskIds : ResumeAfterAdd(t)
    \/ \E t \in TaskIds : ResumeAfterDiff(t)
    \/ \E directory \in DirectoryInputs : ClickUpdate(directory)
    \/ \E files \in SUBSET Paths, instr \in InstructionTexts :
           GenerateRequested(files, instr)
    \/ MessageTaken

Spec == Init /\ [][Next]_vars

-----------------------------------------------------------------------------
(* The session of the webview script                                       *)
(* The host is followed by the messages it exchanges with the webview: it  *)
(* takes the requests in order and answers each with one message.          *)

\* The messages the host may post for a request.
AnswersTo(data) ==
    IF data.type = "updateDirectory"
    THEN {ErrorMessage(NotARepositoryText)}
             \cup {UpdateFilesMessage(Reconcile(st)) :
                       st \in SessionStatusResults}
    ELSE IF data.selectedFiles = {}
    THEN {ErrorMessage(NoFilesSelectedText)}
    ELSE {ErrorMessage(NoStagedChangesText),
          CommitMessageMessage(generateCommitMessageFromDiff(
              StagedDiffText(data.selectedFiles), data.userInstructions))}

\* Lines 43-55: the host handles the next request and posts its answer.
HostAnswers ==
    /\ toHost # <<>>
    /\ toHost' = Tail(toHost)
    /\ \E msg \in AnswersTo(Head(toHost)) : Post(msg)
    /\ UNCHANGED <<hostVars, staged, webviewVars, pureVars>>

InitWebview ==
    /\ view = TRUE
    /\ workspaceFolder = Undefined
    /\ _git = Undefined
    /\ _currentDirectory = Undefined
    /\ tasks = <<>>
    /\ delegate = FALSE
    /\ awaited = NoOutcome
    /\ toHost = <<>>
    /\ toView = <<>>
    /\ staged = [r \in Repos |-> {}]
    /\ WebviewNotStarted
    /\ PureIdle

NextWebview ==
    \/ \E directory \in DirectoryInputs : ClickUpdate(directory)
    \/ \E instr \in InstructionTexts : ClickGenerate(instr)
    \/ \E i \in 1..MaxStatusFiles : ToggleFile(i)
    \/ ToggleSelectAll
    \/ ViewReceive
    \/ HostAnswers

SpecWebview == InitWebview /\ [][NextWebview]_vars

-----------------------------------------------------------------------------
(* The session of one request at a time, in either build                   *)
(* A request is posted when nothing is outstanding.  The settling of an    *)
(* awaited call and the running on of its handler are separate steps, so   *)
(* that the outcome of the call is part of the state.                      *)

\* Click on #updateBtn when nothing is outstanding.
RequestUpdate(directory) ==
    /\ Outstanding = 0
    /\ ClickUpdate(directory)

\* Click on #generateBtn when nothing is outstanding.
RequestGenerate(files, instr) ==
    /\ Outstanding = 0
    /\ PostGenerate(files, instr)

\* The call the handler is suspended at settles.
Settle ==
    /\ tasks # <<>>
    /\ awaited = NoOutcome
    /\ \E r \in Outcomes(tasks[1]) :
           /\ awaited' = r
           /\ staged' = StagedAfter(tasks[1], r)
    /\ UNCHANGED <<view, _git, _currentDirectory, workspaceFolder, tasks,
                   delegate, toHost, toView, webviewVars, pureVars>>

\* The handler runs on from its await to the next one, or to its end.
Resume ==
    /\ tasks # <<>>
    /\ awaited # NoOutcome
    /\ awaited' = NoOutcome
    /\ IF tasks[1].pc = "checkIsRepo" THEN AfterCheckIsRepo(1, awaited)
       ELSE IF tasks[1].pc = "status" THEN AfterStatus(1, awaited)
       ELSE IF tasks[1].pc = "add" THEN AfterAdd(1, awaited)
       ELSE IF tasks[1].pc = "diff" THEN AfterDiff(1, awaited)
       ELSE AfterFetch(1, awaited)
    /\ UNCHANGED <<view, _git, _currentDirectory, workspaceFolder, delegate,
                   toHost, staged, webviewVars, pureVars>>

InitRequest ==
    /\ SessionNotStarted
    /\ delegate \in BOOLEAN
    /\ workspaceFolder \in {Undefined, "ws"}
    /\ PureIdle

NextRequest ==
    \/ resolveWebviewView
    \/ \E directory \in DirectoryInputs : RequestUpdate(directory)
    \/ \E files \in SUBSET Paths, instr \in InstructionTexts :
           RequestGenerate(files, instr)
    \/ onDidReceiveMessage
    \/ Settle
    \/ Resume
    \/ MessageTaken

SpecRequest == InitRequest /\ [][NextRequest]_vars

\* The step in which a suspended handler runs on: of the steps of
\* NextRequest, only Resume resets awaited.
HandlerRunsOn ==
    /\ tasks # <<>>
    /\ awaited # NoOutcome
    /\ awaited' = NoOutcome

\* An awaited call returns or fails, the event loop runs a handler on when
\* its call has settled, and it dispatches a posted message.
FairSpecRequest ==
    /\ SpecRequest
    /\ WF_vars(Settle)
    /\ WF_awaited(HandlerRunsOn)
    /\ WF_vars(onDidReceiveMessage)
    /\ WF_vars(resolveWebviewView)

-----------------------------------------------------------------------------
(* The reconciliation of a status result (updateDirectory, lines 98-120)   *)
(* on every status result                                                  *)

\* updateDirectory on the workspace folder is suspended at
\* `await this._git.status()`, and the call answers `status`.
InitReconcile ==
    /\ view = TRUE
    /\ workspaceFolder = "ws"
    /\ _git = "ws"
    /\ _currentDirectory = "ws"
    /\ tasks = <<AwaitingTask("updateDirectory", "status", "ws", {},
                              JsUndefined)>>
    /\ delegate = FALSE
    /\ awaited = NoOutcome
    /\ toHost = <<>>
    /\ toView = <<>>
    /\ staged = [r \in Repos |-> {}]
    /\ WebviewNotStarted
    /\ phase = "status"
    /\ diff = <<>>
    /\ userInstructions = JsUndefined
    /\ changedFiles = <<>>
    /\ additions = 0
    /\ deletions = 0
    /\ message = <<>>
    /\ status \in StatusResults
    /\ modifiedFiles = <<>>

\* Lines 98-120: `const status = await this._git.status()` is reconciled into
\* modifiedFiles, which is posted as the files of an updateFiles message.
ReconcileStatus ==
    /\ phase = "status"
    /\ phase' = "posted"
    /\ modifiedFiles' = Reconcile(status)
    /\ Post(UpdateFilesMessage(Reconcile(status)))
    /\ Finish(1)
    /\ UNCHANGED <<view, _git, _currentDirectory, workspaceFolder, delegate,
                   awaited, toHost, staged, webviewVars, diff,
                   userInstructions, changedFiles,
                   additions, deletions, message, status>>

NextReconcile == ReconcileStatus

SpecReconcile == InitReconcile /\ [][NextReconcile]_vars

-----------------------------------------------------------------------------
(* The call of generateCommitMessageFromDiff on every input               *)

InitCompose ==
    /\ SessionNotStarted
    /\ delegate = FALSE
    /\ workspaceFolder = Undefined
    /\ phase = "called"
    /\ diff \in DiffInputs
    /\ userInstructions \in InstructionInputs
    /\ changedFiles = <<>>
    /\ additions = 0
    /\ deletions = 0
    /\ message = <<>>
    /\ status = EmptyStatus
    /\ modifiedFiles = <<>>

\* The whole call: the parse loop, then the composed return value.
GenerateFromDiff ==
    /\ phase = "called"
    /\ LET facts == ParseDiff(diff) IN
         /\ changedFiles' = facts.changedFiles
         /\ additions' = facts.additions
         /\ deletions' = facts.deletions
    /\ message' = generateCommitMessageFromDiff(diff, userInstructions)
    /\ phase' = "returned"
    /\ UNCHANGED <<diff, userInstructions, status, modifiedFiles,
                   sessionVars>>

NextCompose == GenerateFromDiff

SpecCompose == InitCompose /\ [][NextCompose]_vars

-----------------------------------------------------------------------------
(* Vocabulary of the properties of generateCommitMessageFromDiff.  It is   *)
(* stated on the characters of the input, not through the parse loop.      *)

\* The input split on newline.
InputLines == split(diff, NewLine)

\* The line begins with three copies of the character c.
BeginsWithThree(line, c) ==
    Len(line) >= 3 /\ line[1] = c /\ line[2] = c /\ line[3] = c

\* The line begins with '+' and is not a '+++' line.
PlusContentLine(line) ==
    Len(line) >= 1 /\ line[1] = "+" /\ ~BeginsWithThree(line, "+")

\* The line begins with '-' and is not a '---' line.
MinusContentLine(line) ==
    Len(line) >= 1 /\ line[1] = "-" /\ ~BeginsWithThree(line, "-")

\* The path a '+++' line names: what follows the marker and one more character.
NamedPath(line) == [i \in 1..(Len(line) - 4) |-> line[i + 4]]

\* The part of a path after its last '/'.
LastSegment(path) ==
    LET slashes == {i \in 1..Len(path) : path[i] = "/"} IN
    IF slashes = {} THEN path
    ELSE LET last == CHOOSE i \in slashes : \A j \in slashes : j <= i
         IN  [i \in 1..(Len(path) - last) |-> path[i + last]]

\* The '+++' lines of ls of more than minLen characters that do not name
\* /dev/null.
NamingLinesOf(ls, minLen) ==
    {i \in 1..Len(ls) :
        /\ BeginsWithThree(ls[i], "+")
        /\ Len(ls[i]) > minLen
        /\ NamedPath(ls[i]) # DevNull}

NamingLines(minLen) == NamingLinesOf(InputLines, minLen)

\* The '+++' lines that name /dev/null.
SentinelLines ==
    LET ls == InputLines IN
    {i \in 1..Len(ls) :
        BeginsWithThree(ls[i], "+") /\ NamedPath(ls[i]) = DevNull}

\* The base name each line of idx names.
NameAt(ls, idx) == [i \in idx |-> LastSegment(NamedPath(ls[i]))]

\* The base names of the '+++' lines of more than minLen characters.
NamesOf(minLen) ==
    LET ls == InputLines
        idx == NamingLinesOf(ls, minLen)
        name == NameAt(ls, idx)
    IN  {name[i] : i \in idx}

\* The distinct base names in first-seen order: the k-th is the name of the
\* k-th line whose name no earlier line has.
FirstSeenNames ==
    LET ls == InputLines
        idx == NamingLinesOf(ls, 4)
        name == NameAt(ls, idx)
        firsts == {i \in idx : \A j \in idx : j < i => name[j] # name[i]}
    IN  [k \in 1..Cardinality(firsts) |->
            name[CHOOSE i \in firsts :
                     Cardinality({j \in firsts : j < i}) = k - 1]]

\* The decimal numeral of a count below 100.
Decimal(n) ==
    IF n < 10 THEN <<DigitChars[n + 1]>>
    ELSE <<DigitChars[(n \div 10) + 1], DigitChars[(n % 10) + 1]>>

\* " (+A -D)"
CountSuffix ==
    <<" ", "(", "+">> \o Decimal(additions) \o <<" ", "-">>
        \o Decimal(deletions) \o <<")">>

\* prefix: the instructions and ": ", or "Update: " when there are none.
ExpectedPrefix ==
    IF userInstructions.kind = "string" /\ Len(userInstructions.val) > 0
    THEN userInstructions.val \o <<":", " ">>
    ELSE <<"U", "p", "d", "a", "t", "e", ":", " ">>

MainRs == <<"m", "a", "i", "n", ".", "r", "s">>
FileA == <<"a", ".", "t", "s">>

MessageOneFileExample ==
    <<"U", "p", "d", "a", "t", "e", ":", " ", "C", "h", "a", "n", "g", "e",
      "s", " ", "i", "n", " ", "a", ".", "t", "s", " ", "(", "+", "2", " ",
      "-", "0", ")">>

MessageFourFilesExample ==
    <<"f", "i", "x", ":", " ", "C", "h", "a", "n", "g", "e", "s", " ", "i",
      "n", " ", "m", "u", "l", "t", "i", "p", "l", "e", " ", "f", "i", "l",
      "e", "s", " ", "(", "a", ".", "t", "s", ",", " ", "b", ".", "t", "s",
      ",", " ", "c", ".", "t", "s", ".", ".", ".", ")", " ", "(", "+", "5",
      " ", "-", "1", ")">>

MessageEmptyExample ==
    <<"U", "p", "d", "a", "t", "e", ":", " ", "C", "h", "a", "n", "g", "e",
      "s", " ", "i", "n", " ", "r", "e", "p", "o", "s", "i", "t", "o", "r",
      "y">>

-----------------------------------------------------------------------------
(* Properties of generateCommitMessageFromDiff                             *)

\* C1: the counts are exact: additions is the number of input lines that
\* begin with '+' and not with '+++', deletions the number that begin with
\* '-' and not with '---'; both are non-negative and no other line counts.
C1_CountsExact ==
    phase = "returned" =>
        LET ls == InputLines IN
        /\ additions =
               Cardinality({i \in 1..Len(ls) : PlusContentLine(ls[i])})
        /\ deletions =
               Cardinality({i \in 1..Len(ls) : MinusContentLine(ls[i])})
        /\ additions >= 0
        /\ deletions >= 0

\* A diff with '+++' and '---' lines next to counted '+' and '-' lines.
C1_Witness ==
    /\ phase = "returned"
    /\ additions > 0
    /\ deletions > 0
    /\ LET ls == InputLines IN
         /\ \E i \in 1..Len(ls) : BeginsWithThree(ls[i], "+")
         /\ \E i \in 1..Len(ls) : BeginsWithThree(ls[i], "-")

\* C2 as stated: changedFiles is exactly the set of last path segments named
\* by the '+++' lines longer than the 3-character marker that are not the
\* sentinel; base names only, one entry per base name.
C2_Original ==
    phase = "returned" =>
        /\ Range(changedFiles) = NamesOf(3)
        /\ \A f \in Range(changedFiles) : "/" \notin Range(f)
        /\ Cardinality(Range(changedFiles)) = Len(changedFiles)
        /\ diff = ExampleMainRs =>
               changedFiles = <<MainRs>> /\ additions = 3 /\ deletions = 1

\* C2 amended: the same for the '+++' lines of more than 4 characters (the
\* marker and the character after it).
C2_BaseNames ==
    phase = "returned" =>
        /\ Range(changedFiles) = NamesOf(4)
        /\ \A f \in Range(changedFiles) : "/" \notin Range(f)
        /\ Cardinality(Range(changedFiles)) = Len(changedFiles)
        /\ diff = ExampleMainRs =>
               changedFiles = <<MainRs>> /\ additions = 3 /\ deletions = 1

\* Two headers in different directories share the base name a.ts.
C2_Witness ==
    /\ phase = "returned"
    /\ changedFiles = <<FileA>>
    /\ Cardinality(NamingLines(4)) >= 2

\* C3: a '+++' line that names /dev/null adds nothing: changedFiles never
\* contains the sentinel, and each of its entries is the base name of a
\* '+++' line that names another path.
C3_SentinelSkipped ==
    phase = "returned" =>
        /\ DevNull \notin Range(changedFiles)
        /\ Range(changedFiles) \subseteq NamesOf(4)
        /\ NamingLines(4) = {} => changedFiles = <<>>

\* A diff with a /dev/null header next to a header of a real file.
C3_Witness ==
    /\ phase = "returned"
    /\ SentinelLines # {}
    /\ Len(changedFiles) = 1

\* C4: the message starts with the prefix; the empty string and a value
\* that was not provided both give "Update: ".
C4_Prefix ==
    phase = "returned" =>
        /\ Len(message) >= Len(ExpectedPrefix)
        /\ SubSeq(message, 1, Len(ExpectedPrefix)) = ExpectedPrefix
        /\ userInstructions \in {JsUndefined, JsString(<<>>)} =>
               /\ SubSeq(message, 1, 8) = SubSeq(MessageEmptyExample, 1, 8)
               /\ message = generateCommitMessageFromDiff(diff, JsUndefined)
               /\ message = generateCommitMessageFromDiff(diff, JsString(<<>>))

\* The instructions are the empty string.
C4_Witness ==
    /\ phase = "returned"
    /\ userInstructions = JsString(<<>>)
    /\ Len(changedFiles) > 0

\* C5: with two or more files the message is the prefix, "Changes in
\* multiple files (", the first three names in first-seen order joined by
\* ", ", "..." exactly when there are more than three, then ") (+A -D)".
C5_MultipleFiles ==
    (phase = "returned" /\ Len(changedFiles) >= 2) =>
        /\ LET n == Len(changedFiles)
               seen == FirstSeenNames
               list == IF n = 2
                       THEN seen[1] \o <<",", " ">> \o seen[2]
                       ELSE seen[1] \o <<",", " ">> \o seen[2]
                                \o <<",", " ">> \o seen[3]
               dots == IF n > 3 THEN <<".", ".", ".">> ELSE <<>>
           IN  message = ExpectedPrefix \o ChangesInMultipleFiles \o list
                             \o dots \o <<")">> \o CountSuffix
        /\ (diff = ExampleFourFiles /\ userInstructions = JsString(InstructionFix))
               => message = MessageFourFilesExample

\* The example of four files, five additions and one deletion.
C5_Witness ==
    /\ phase = "returned"
    /\ diff = ExampleFourFiles
    /\ userInstructions = JsString(InstructionFix)
    /\ Len(changedFiles) = 4
    /\ additions = 5
    /\ deletions = 1

\* C6: with exactly one file f the message is the prefix, "Changes in ",
\* f and " (+A -D)" with the counts in decimal.
C6_OneFile ==
    (phase = "returned" /\ Len(changedFiles) = 1) =>
        /\ message = ExpectedPrefix \o ChangesIn \o changedFiles[1]
                         \o CountSuffix
        /\ (diff = ExampleOneFile /\ userInstructions = JsString(<<>>))
               => message = MessageOneFileExample

\* The example of a.ts with two additions and no deletion.
C6_Witness ==
    /\ phase = "returned"
    /\ diff = ExampleOneFile
    /\ userInstructions = JsString(<<>>)
    /\ changedFiles = <<FileA>>
    /\ additions = 2
    /\ deletions = 0

\* C7 as stated: a diff with no usable '+++' header yields zero counts and
\* an empty file set, and an empty file set gives prefix + "Changes in
\* repository".
C7_Original ==
    phase = "returned" =>
        /\ NamingLines(4) = {} =>
               additions = 0 /\ deletions = 0 /\ changedFiles = <<>>
        /\ changedFiles = <<>> =>
               message = ExpectedPrefix \o ChangesInRepository

\* C7 amended: the empty diff yields zero counts and an empty file set; a
\* diff with no usable '+++' header yields an empty file set, its counts
\* being those of its '+' and '-' lines; an empty file set gives prefix +
\* "Changes in repository".
C7_EmptyCase ==
    phase = "returned" =>
        /\ diff = <<>> =>
               additions = 0 /\ deletions = 0 /\ changedFiles = <<>>
        /\ NamingLines(4) = {} =>
               /\ changedFiles = <<>>
               /\ (additions = 0 /\ deletions = 0) <=>
                      (LET ls == InputLines IN
                       \A i \in 1..Len(ls) :
                           ~PlusContentLine(ls[i]) /\ ~MinusContentLine(ls[i]))
        /\ changedFiles = <<>> =>
               message = ExpectedPrefix \o ChangesInRepository
        /\ (diff = <<>> /\ userInstructions = JsString(<<>>)) =>
               message = MessageEmptyExample

\* A diff without a usable header whose '+' lines are counted.
C7_Witness ==
    /\ phase = "returned"
    /\ changedFiles = <<>>
    /\ additions > 0
    /\ diff # <<>>
    /\ message = MessageEmptyExample

-----------------------------------------------------------------------------
(* Vocabulary of the properties of the reconciliation.                     *)

\* The three lists of the status result share no path.
DisjointLists ==
    /\ Range(status.modified) \cap Range(status.not_added) = {}
    /\ Range(status.modified) \cap Range(status.created) = {}
    /\ Range(status.not_added) \cap Range(status.created) = {}

\* The files of the updateFiles message updateDirectory has posted.
SentFiles == toView[Len(toView)].files

UpdateFilesSent ==
    /\ phase = "posted"
    /\ toView # <<>>
    /\ toView[Len(toView)].type = "updateFiles"

\* The path the concatenation modified, untracked, created has at position i.
PathAt(i) ==
    IF i <= Len(status.modified) THEN status.modified[i]
    ELSE IF i <= Len(status.modified) + Len(status.not_added)
    THEN status.not_added[i - Len(status.modified)]
    ELSE status.created[i - Len(status.modified) - Len(status.not_added)]

-----------------------------------------------------------------------------
(* C8..C9: the reconciliation of a status result                           *)

\* C8: when the three lists of the status result are disjoint, the file list
\* sent to the view is as long as the three lists together, lists the paths
\* of the modified list, then of the untracked list, then of the created
\* list, each in its order, and every record has staged false and modified
\* true.
C8_Concatenation ==
    (UpdateFilesSent /\ DisjointLists) =>
        /\ Len(SentFiles) = Len(status.modified) + Len(status.not_added)
                                + Len(status.created)
        /\ \A i \in 1..Len(SentFiles) :
               /\ SentFiles[i].path = PathAt(i)
               /\ SentFiles[i].staged = FALSE
               /\ SentFiles[i].modified = TRUE

\* A list of three files was sent for three disjoint, non-empty lists.
C8_Witness ==
    /\ UpdateFilesSent
    /\ DisjointLists
    /\ status.modified # <<>>
    /\ status.not_added # <<>>
    /\ status.created # <<>>
    /\ Len(SentFiles) = 3

\* C9: whatever the three lists of the status result are, overlapping or
\* not, the file list sent to the view names no path twice.
C9_NoPathTwice ==
    UpdateFilesSent =>
        \A i, j \in 1..Len(SentFiles) :
            i # j => SentFiles[i].path # SentFiles[j].path

-----------------------------------------------------------------------------
(* C10: a generate request with no selected file                           *)

\* The step in which the host handles a generate request without selection.
ZeroSelectionHandled ==
    /\ toHost # <<>>
    /\ Head(toHost).type = "generateCommitMessage"
    /\ Head(toHost).selectedFiles = {}
    /\ toHost' = Tail(toHost)

\* Neither a staging call, a diff query nor a composition is started.
NothingInvoked ==
    /\ tasks' = tasks
    /\ staged' = staged

HandleInitialised == _git # Undefined /\ _currentDirectory # Undefined

\* C10 as stated: in every state, handle initialised or not, a generate
\* request with no selected file is answered by the error "No files
\* selected" and starts no staging call, diff query or composition.
C10_Original ==
    [][ZeroSelectionHandled =>
           /\ toView' = Append(toView, ErrorMessage(NoFilesSelectedText))
           /\ NothingInvoked]_vars

\* C10 (amended): a generate request with no selected file is answered by
\* exactly one error and starts no staging call, diff query or composition;
\* the error is "No files selected" when the repository handle is
\* initialised and "Git repository not initialized" when it is not.
C10_ZeroSelection ==
    [][ZeroSelectionHandled =>
           /\ toView' = Append(toView, ErrorMessage(
                  IF HandleInitialised THEN NoFilesSelectedText
                  ELSE NotInitializedText))
           /\ NothingInvoked]_vars

\* The error "No files selected" was posted, with the handle initialised.
C10_Witness ==
    /\ HandleInitialised
    /\ \E i \in 1..Len(toView) :
           toView[i] = ErrorMessage(NoFilesSelectedText)

-----------------------------------------------------------------------------
(* Vocabulary of the properties of the suspended handler calls.            *)

\* The suspended calls without the one at position t.
Without(t) ==
    [i \in 1..(Len(tasks) - 1) |-> IF i < t THEN tasks[i] ELSE tasks[i + 1]]

\* The step in which the call at position t ends.
Ends(t) ==
    /\ t \in 1..Len(tasks)
    /\ tasks' = Without(t)

\* The step posts exactly one message, of the given type.
PostsOne(type) ==
    /\ Len(toView') = Len(toView) + 1
    /\ SubSeq(toView', 1, Len(toView)) = toView
    /\ toView'[Len(toView')].type = type

Posted == toView'[Len(toView')]

-----------------------------------------------------------------------------
(* C11: the commit message of a generate request                           *)

\* C11: the commit message a generate request posts is the summary of the
\* diff of the files selected in that request: a staged file that is not in
\* the selection adds neither its name nor its lines to the message.
C11_SelectedFilesOnly ==
    [][\A t \in TaskIds :
           (Ends(t) /\ tasks[t].pc = "diff" /\ PostsOne("commitMessage")) =>
               Posted.message =
                   generateCommitMessageFromDiff(
                       StagedDiffText(tasks[t].selectedFiles),
                       tasks[t].userInstructions)]_vars

-----------------------------------------------------------------------------
(* Vocabulary of the properties of one request at a time.                  *)

\* The step in which the suspended handler runs on from the given await.
RunsOnFrom(pc) ==
    /\ tasks # <<>>
    /\ tasks[1].pc = pc
    /\ awaited # NoOutcome
    /\ awaited' # awaited

\* The request has ended with exactly the given message posted.
EndsWith(msg) ==
    /\ tasks' = <<>>
    /\ toView' = Append(toView, msg)

-----------------------------------------------------------------------------
(* C12: an empty staged diff                                               *)

\* C12: when the diff query answers the empty text after the staging call
\* has succeeded, the request ends with the error "No staged changes found"
\* as its only message (no commit message is posted and no delegate call is
\* pending), and the paths the request staged are still staged.
C12_EmptyDiff ==
    [][(RunsOnFrom("diff") /\ awaited.kind = "fulfilled"
            /\ awaited.text = <<>>) =>
           /\ EndsWith(ErrorMessage(NoStagedChangesText))
           /\ staged' = staged
           /\ tasks[1].selectedFiles \subseteq staged'[tasks[1].git]]_vars

\* The error was posted while the paths of the request are staged.
C12_Witness ==
    /\ toView = <<ErrorMessage(NoStagedChangesText)>>
    /\ tasks = <<>>
    /\ staged[_git] # {}

-----------------------------------------------------------------------------
(* C13: every request is answered by exactly one message                   *)

\* A request is posted or its handler is suspended.
InProgress == toHost # <<>> \/ tasks # <<>>

\* The request has completed and its one message is with the webview.
Completed ==
    /\ toHost = <<>>
    /\ tasks = <<>>
    /\ Len(toView) = 1
    /\ toView[1].type \in {"updateFiles", "commitMessage", "error"}

\* C13: when every awaited call returns or fails, a request that is in
\* progress has posted nothing yet and eventually completes with exactly one
\* message posted, a result or an error; a rejected call ends its request
\* with the error message of the catch block; and whenever nothing is
\* outstanding, also after an error, a further request can be posted and a
\* posted request is handled.
C13_OneMessagePerRequest ==
    /\ [](Len(toView) <= 1)
    /\ [](InProgress => toView = <<>>)
    /\ InProgress ~> Completed
    /\ [][(tasks # <<>> /\ awaited.kind = "rejected" /\ awaited' # awaited)
              => EndsWith(ErrorMessage(CollaboratorErrorText))]_vars
    /\ []((view /\ Outstanding = 0) =>
              ENABLED (\E directory \in DirectoryInputs :
                           RequestUpdate(directory)))
    /\ []((view /\ toHost # <<>>) => ENABLED onDidReceiveMessage)

\* A request of the delegate build has completed with the error of a failed
\* delegate call as its one message.
C13_Witness ==
    /\ Completed
    /\ delegate
    /\ toView[1] = ErrorMessage(HttpErrorText)

-----------------------------------------------------------------------------
(* C14: generate requests in flight                                        *)

\* The generate requests that have started and not yet posted their message.
GenerateInFlight ==
    {t \in 1..Len(tasks) : tasks[t].type = "generateCommitMessage"}

\* C14: at most one generate request is in flight: no generate request is
\* staging, diffing or calling the delegate while an earlier one has not yet
\* posted its commit message or error.
C14_OneGenerateInFlight == Cardinality(GenerateInFlight) <= 1

-----------------------------------------------------------------------------
(* C15: a failed updateDirectory                                           *)

\* C15: when updateDirectory ends in an error for a directory that is not a
\* repository, a directory the handle was never bound to by a successful
\* call, the repository handle and the current directory are not left bound
\* to that directory.
C15_RejectedDirectoryNotKept ==
    [][\A t \in TaskIds :
           (Ends(t) /\ tasks[t].type = "updateDirectory"
                /\ ~IsRepo(tasks[t].git) /\ PostsOne("error")) =>
               /\ _git' # tasks[t].git
               /\ _currentDirectory' # tasks[t].git]_vars

-----------------------------------------------------------------------------
(* C16: the delegate                                                       *)

\* C16: in the delegate build, when the delegate call has settled the
\* request ends at once: with the body of a successful response posted as
\* the commit message, unchanged, and otherwise with an error as its only
\* message, no commit message being composed in its place.
C16_DelegateVerbatim ==
    [][RunsOnFrom("fetch") =>
           IF awaited.kind = "fulfilled" /\ awaited.ok
           THEN EndsWith(CommitMessageMessage(awaited.text))
           ELSE tasks' = <<>> /\ PostsOne("error")]_vars

\* The body of a successful response is with the webview.
C16_Witness ==
    /\ delegate
    /\ Completed
    /\ toView[1].type = "commitMessage"
    /\ toView[1].message # <<>>

-----------------------------------------------------------------------------
(* C17: the repository of a generate request                               *)

\* C17: the staged diff of a generate request is queried on the handle its
\* staging call was made on, whatever updateDirectory request runs between
\* the two calls.
C17_SameRepository ==
    [][\A t \in TaskIds :
           (t <= Len(tasks) /\ Len(tasks') = Len(tasks)
                /\ tasks[t].pc = "add" /\ tasks'[t].pc = "diff") =>
               tasks'[t].git = tasks[t].git]_vars

-----------------------------------------------------------------------------
(* C18: the selection of the webview                                       *)

\* The paths of the displayed entries whose checkbox is checked.
CheckedPaths == {fileList[i].path : i \in checked}

\* No two displayed entries have the same path.
DistinctEntries ==
    \A i, j \in 1..Len(fileList) :
        i # j => fileList[i].path # fileList[j].path

\* C18: selectedFiles is the set of the paths of the displayed entries whose
\* checkbox is checked, and a checked select-all box implies that every
\* entry is checked.
C18_SelectionIsCheckedPaths ==
    /\ selectedFiles = CheckedPaths
    /\ selectAll => checked = 1..Len(fileList)

\* C18 restricted to lists in which no two displayed entries have the same
\* path.
C18_DistinctEntriesOnly == DistinctEntries => C18_SelectionIsCheckedPaths

====
